---- MODULE Spec2Model ----
(***************************************************************************)
(* Model of paper_watcher.py: the link-extraction -> metadata-resolution   *)
(* -> state -> note-rewrite pipeline driven by the watch loop, the         *)
(* StateManager, and SemanticScholarAPI._request_with_retry.  Further      *)
(* specifications over the same variables: the watch loop over two notes   *)
(* with exceptions, deletions and Ctrl+C (SpecLoop), the note rewrite      *)
(* (SpecRewrite), the state file found at start (SpecLoad), one resolution *)
(* query by query (SpecResolve), the --once scan (SpecOnce), and the watch *)
(* loop fed by the notifications of its own rewrites (SpecQuiesce).        *)
(*                                                                         *)
(* Text is modelled structurally.  A note is a sequence of lines; a line   *)
(* is a record [kind, refs, cite] where refs is the sequence of link       *)
(* targets that occur textually in the line.  A link target (Ref) is a     *)
(* record [scheme, host, form, grp]; grp is the token sequence the regular *)
(* expressions capture, e.g. <<"2301.00001", "v", "2">>.  Optional values  *)
(* are sequences: <<>> is None and <<x>> is the value x.                   *)
(***************************************************************************)
EXTENDS Integers, Sequences, FiniteSets, TLC

VARIABLES
    files,            \* note path -> text (sequence of lines) on disk
    processed_urls,   \* StateManager.state["processed_urls"] (in memory)
    file_hashes,      \* StateManager.state["file_hashes"] (in memory)
    disk,             \* the state file: [st, processed_urls, file_hashes]
    now,              \* wall clock, seconds
    pending_files,    \* PaperWatcherHandler.pending_files
    last_event_time,  \* PaperWatcherHandler.last_event_time
    pc,               \* position of the main thread
    ret,              \* where save_state returns to
    queue,            \* list(self.pending_files) still to iterate
    urls,             \* process_file: urls found in the content read
    idx,              \* process_file: index of the url in the for loop
    paper_info,       \* process_file: <<>> or <<PaperInfo>> of the url
    results,          \* process_file: results list
    ev,               \* the last step taken: [op, url, ok]
    everPersisted,    \* history: urls that were in a complete state file
    failed,           \* history: urls whose latest resolution gave no record
    crashes,          \* history: number of kills of the process
    state_keys,       \* the mappings self.state holds
    deleted,          \* note paths that no longer exist on disk
    dirty,            \* history: paths notified and not read since
    resolveTimes,     \* history: clock at each resolution of the current scan
    rs_pc,            \* _process_arxiv: position
    rs_calls,         \* _process_arxiv: the queries made so far
    inflight,         \* notifications the observer has not delivered yet
    rewrites,         \* history: number of note rewrites
    attempt,          \* _request_with_retry: loop variable
    responses,        \* _request_with_retry: responses received so far
    sleeps,           \* _request_with_retry: time.sleep arguments so far
    rq_pc,            \* _request_with_retry: position
    rq_result         \* _request_with_retry: return value (<<>> is None)

auxVars == <<state_keys, deleted, rs_pc, rs_calls>>
histVars == <<dirty, resolveTimes>>
notifVars == <<inflight, rewrites>>
pipeVars == <<files, processed_urls, file_hashes, disk, now, pending_files,
              last_event_time, pc, ret, queue, urls, idx, paper_info,
              results, ev, everPersisted, failed, crashes,
              state_keys, deleted, rs_pc, rs_calls, dirty, resolveTimes,
              inflight, rewrites>>
retryVars == <<attempt, responses, sleeps, rq_pc, rq_result>>
vars == <<files, processed_urls, file_hashes, disk, now, pending_files,
          last_event_time, pc, ret, queue, urls, idx, paper_info,
          results, ev, everPersisted, failed, crashes,
          state_keys, deleted, rs_pc, rs_calls, dirty, resolveTimes,
          inflight, rewrites,
          attempt, responses, sleeps, rq_pc, rq_result>>

----------------------------------------------------------------------------
(* Bounds *)

MaxLinks == 2
MaxTime == 6
MaxCrashes == 1

----------------------------------------------------------------------------
(* Values *)

None == <<>>
Some(x) == <<x>>

Ref(scheme, host, form, grp) ==
    [scheme |-> scheme, host |-> host, form |-> form, grp |-> grp]

IdA == <<"2301.00001">>

UAbsA == Ref("https", "arxiv.org", "abs", IdA)
UPdfA == Ref("https", "arxiv.org", "pdf", IdA \o <<"v", "2">>)
UDoi == Ref("https", "doi.org", "", <<"10.1000/x">>)
UOther == Ref("https", "example.org", "", <<"page">>)

NoteUrls == {UAbsA, UPdfA, UDoi, UOther}

NoUrl == Ref("", "", "", <<>>)

Path(name, ext) == [name |-> name, ext |-> ext]
Paths == {Path("a", ".md")}
\* what else changes in the watched directory: the state file, the pdf directory
StateFilePath == Path(".paper_watcher_state", ".json")
PdfDirPath == Path("pdfs", "")

----------------------------------------------------------------------------
(* URLParser *)

Punct == {".", ",", ";", ":"}
VersionDigits == {"1", "2", "3"}
NewStyleNums == {"2301.00001", "2302.00002"}
\* old-style identifiers, category/NNNNNNN, as the tokens around each "v"
OldStyleGrps == {<<"hep-th/9901001">>, <<"sol", "v", "-int/9901001">>}

RECURSIVE RStrip(_, _)
RStrip(s, chars) ==
    IF s # <<>> /\ s[Len(s)] \in chars
    THEN RStrip(SubSeq(s, 1, Len(s) - 1), chars)
    ELSE s

\* str.split('v')[0]: the text before the first "v"
RECURSIVE SplitV0(_)
SplitV0(s) ==
    IF s = <<>> \/ Head(s) = "v" THEN <<>> ELSE <<Head(s)>> \o SplitV0(Tail(s))

HasV(s) == \E i \in 1..Len(s) : s[i] = "v"

\* r'(\d{4}\.\d{4,5}(?:v\d+)?)' : the group the pattern captures, if any
NewStyleGroup(grp) ==
    IF grp = <<>> \/ grp[1] \notin NewStyleNums THEN None
    ELSE IF Len(grp) >= 3 /\ grp[2] = "v" /\ grp[3] \in VersionDigits
         THEN Some(SubSeq(grp, 1, 3))
         ELSE Some(SubSeq(grp, 1, 1))

\* r'([a-z-]+/\d{7})'
OldStyleGroup(grp) == IF grp \in OldStyleGrps THEN Some(grp) ELSE None

ARXIV_PATTERNS ==
    << [form |-> "abs", style |-> "new"], [form |-> "pdf", style |-> "new"],
       [form |-> "abs", style |-> "old"], [form |-> "pdf", style |-> "old"] >>

PatternMatch(pattern, url) ==
    IF url.host = "arxiv.org" /\ url.form = pattern.form
    THEN IF pattern.style = "new" THEN NewStyleGroup(url.grp)
         ELSE OldStyleGroup(url.grp)
    ELSE None

RECURSIVE ExtractFrom(_, _)
ExtractFrom(i, url) ==
    IF i > Len(ARXIV_PATTERNS) THEN None
    ELSE LET match == PatternMatch(ARXIV_PATTERNS[i], url)
         IN  IF match # None
             THEN LET arxiv_id == match[1]
                  IN  Some(IF HasV(arxiv_id) THEN SplitV0(arxiv_id) ELSE arxiv_id)
             ELSE ExtractFrom(i + 1, url)

extract_arxiv_id(url) == ExtractFrom(1, url)

\* an identifier is truthy when it is a non-empty string
Truthy(opt) == opt # None /\ opt[1] # <<>>

extract_doi(url) ==
    IF url.host = "doi.org" /\ url.grp # <<>> /\ url.grp[1] = "10.1000/x"
    THEN Some(RStrip(url.grp, {"."}))
    ELSE None

\* r'https?://[^\s\)\]<>\"\']+|doi:\s*10\.\d{4,}/...' then rstrip('.,;:')
IsUrlText(ref) == ref.scheme \in {"http", "https", "doi:"}

StripUrl(ref) == [ref EXCEPT !.grp = RStrip(ref.grp, Punct)]

RECURSIVE MapStrip(_)
MapStrip(refs) ==
    IF refs = <<>> THEN <<>>
    ELSE <<StripUrl(Head(refs))>> \o MapStrip(Tail(refs))

RECURSIVE find_urls_in_text(_)
find_urls_in_text(text) ==
    IF text = <<>> THEN <<>>
    ELSE MapStrip(SelectSeq(Head(text).refs, IsUrlText))
             \o find_urls_in_text(Tail(text))

----------------------------------------------------------------------------
(* Lines of a note *)

UrlLine(u) == [kind |-> "url", refs |-> <<u>>, cite |-> None]
BlankLine == [kind |-> "blank", refs |-> <<>>, cite |-> None]

\* line.strip() == url
LineIsUrl(line, url) == line.kind = "url" /\ line.refs = <<url>>

----------------------------------------------------------------------------
(* PaperInfo *)

MaxAuthors == 3
TitleCap == 80
UnsafeChars == {"<", ">", ":", "\"", "/", "\\", "|", "?", "*"}

Min(a, b) == IF a < b THEN a ELSE b

\* a name is its sequence of words; [names, etal] is the joined text
format_authors(info) ==
    IF Len(info.authors) <= MaxAuthors
    THEN [names |-> info.authors, etal |-> FALSE]
    ELSE [names |-> SubSeq(info.authors, 1, MaxAuthors), etal |-> TRUE]

ArxivAbsUrl(arxiv_id) == Ref("https", "arxiv.org", "abs", arxiv_id)
DoiUrl(doi) == Ref("https", "doi.org", "", doi)

Link(label, target) == [label |-> label, target |-> target]

\* local_pdf_path is <<>> (None) or <<path>>
to_markdown(info, local_pdf_path) ==
    LET links == (IF local_pdf_path # None /\ local_pdf_path[1] # NoUrl
                  THEN <<Link("PDF", local_pdf_path[1])>> ELSE <<>>)
              \o (IF Truthy(info.arxiv_id)
                  THEN <<Link("arXiv", ArxivAbsUrl(info.arxiv_id[1]))>> ELSE <<>>)
              \o (IF Truthy(info.doi)
                  THEN <<Link("DOI", DoiUrl(info.doi[1]))>> ELSE <<>>)
        citation_str == IF info.citations # None
                        THEN "Citations: " \o ToString(info.citations[1])
                        ELSE "Citations: N/A"
    IN  [title |-> info.title, authors |-> format_authors(info),
         venue |-> info.venue, year |-> info.year,
         links |-> links, citation_str |-> citation_str]

\* the line of text a formatted citation makes: its link targets occur in it
CiteLine(formatted) ==
    [kind |-> "cite",
     refs |-> [i \in 1..Len(formatted.links) |-> formatted.links[i].target],
     cite |-> Some(formatted)]

----------------------------------------------------------------------------
(* API clients: the answers of the services are inputs *)

SSData(cit) == [title |-> <<"Foo">>, authors |-> << <<"Jane", "Doe">> >>,
                venue |-> "", year |-> "2023", citationCount |-> cit]
\* what _request_with_retry returns for the full-info request
SSResponses ==
    {None, Some(SSData(None)), Some(SSData(Some(0))), Some(SSData(Some(5)))}
\* what _request_with_retry returns for the citationCount request
CitResponses ==
    {None, Some([citationCount |-> None]), Some([citationCount |-> Some(0)]),
     Some([citationCount |-> Some(5)])}
AtomEntry == [title |-> <<"Foo">>, authors |-> << <<"Jane", "Doe">> >>,
              published |-> "2023", category |-> "cs.LG"]
ArxivResponses == {[status |-> "200", entry |-> Some(AtomEntry)],
                   [status |-> "200", entry |-> None],
                   [status |-> "403", entry |-> None],
                   [status |-> "500", entry |-> None]}

ArxivPdfUrl(arxiv_id) == Ref("https", "arxiv.org", "pdf", arxiv_id \o <<".pdf">>)

get_full_paper_info(arxiv_id, data) ==
    IF data = None THEN None
    ELSE Some([title |-> data[1].title, authors |-> data[1].authors,
               venue |-> IF data[1].venue = "" THEN "arXiv" ELSE data[1].venue,
               year |-> data[1].year, arxiv_id |-> Some(arxiv_id), doi |-> None,
               pdf_url |-> Some(ArxivPdfUrl(arxiv_id)),
               citations |-> data[1].citationCount])

get_citations(data) == IF data = None THEN None ELSE data[1].citationCount

\* ArxivAPI.get_paper_info; ss2 answers _fallback_semantic_scholar
get_paper_info(arxiv_id, resp, ss2) ==
    IF resp.status = "403" THEN get_full_paper_info(arxiv_id, ss2)
    ELSE IF resp.status # "200" \/ resp.entry = None THEN None
    ELSE Some([title |-> resp.entry[1].title, authors |-> resp.entry[1].authors,
               venue |-> "arXiv:" \o resp.entry[1].category,
               year |-> resp.entry[1].published,
               arxiv_id |-> Some(arxiv_id), doi |-> None,
               pdf_url |-> Some(ArxivPdfUrl(arxiv_id)), citations |-> None])

_process_arxiv(arxiv_id, ss1, resp, ss2, cit) ==
    LET first == get_full_paper_info(arxiv_id, ss1)
        info == IF first = None THEN get_paper_info(arxiv_id, resp, ss2) ELSE first
    IN  IF info = None THEN None
        ELSE IF info[1].citations = None /\ get_citations(cit) # None
             THEN Some([info[1] EXCEPT !.citations = get_citations(cit)])
             ELSE info

\* the answers the services give while the watch loop runs
LoopSSResponses == {None, Some(SSData(Some(5)))}
LoopArxivResponses == {[status |-> "200", entry |-> Some(AtomEntry)],
                       [status |-> "500", entry |-> None]}
LoopCitResponses == {None}

\* every value _process_arxiv can return for the identifier
ProcessArxivResults(arxiv_id) ==
    { _process_arxiv(arxiv_id, ss1, resp, ss2, cit) :
        ss1 \in LoopSSResponses, resp \in LoopArxivResponses,
        ss2 \in LoopSSResponses, cit \in LoopCitResponses }

----------------------------------------------------------------------------
(* PDFDownloader *)

generate_filename(info) ==
    LET kept == SelectSeq(info.title, LAMBDA c : c \notin UnsafeChars)
        title == SubSeq(kept, 1, Min(TitleCap, Len(kept)))
        first_author == IF info.authors # <<>>
                        THEN info.authors[1][Len(info.authors[1])]
                        ELSE "Unknown"
    IN  <<first_author, "_", info.year, "_">> \o title \o <<".pdf">>

\* os.path.relpath(os.path.join(pdf_dir, filename), dirname(filepath))
RelPdfPath(filename) == Ref("", "", "pdfs", filename)

----------------------------------------------------------------------------
(* StateManager *)

EmptyMap == <<>>

\* the two mappings of the state document
StateKeys == {"processed_urls", "file_hashes"}

Get(f, k, default) == IF k \in DOMAIN f THEN f[k] ELSE default

Put(f, k, v) == [x \in DOMAIN f \cup {k} |-> IF x = k THEN v ELSE f[x]]

NoStateFile ==
    [st |-> "missing", keys |-> {}, processed_urls |-> EmptyMap,
     file_hashes |-> EmptyMap]

\* the state file between open(state_file, 'w') and the end of json.dump
TruncatedFile ==
    [st |-> "partial", keys |-> {}, processed_urls |-> EmptyMap,
     file_hashes |-> EmptyMap]

\* json.dump(self.state, f): a document json.load accepts, with the mappings
\* of the names in keys
DumpedFile(keys, purls, hashes) ==
    [st |-> "ok", keys |-> keys,
     processed_urls |-> IF "processed_urls" \in keys THEN purls ELSE EmptyMap,
     file_hashes |-> IF "file_hashes" \in keys THEN hashes ELSE EmptyMap]

WrittenFile(purls, hashes) == DumpedFile(StateKeys, purls, hashes)

\* _load_state: a missing file, or one json.load rejects, is the empty state;
\* a document json.load accepts is returned as it is
_load_state(d) ==
    IF d.st = "ok"
    THEN [keys |-> d.keys, processed_urls |-> d.processed_urls,
          file_hashes |-> d.file_hashes]
    ELSE [keys |-> StateKeys, processed_urls |-> EmptyMap,
          file_hashes |-> EmptyMap]

\* no url counts as processed
is_url_processed_never(purls, url) == FALSE

is_url_processed(purls, url) == url \in DOMAIN purls

Snapshot(title, arxiv_id, doi) ==
    [title |-> title, arxiv_id |-> arxiv_id, doi |-> doi]

\* self.state["processed_urls"][url] = {"processed_at": ..., "info": ...}
SetProcessed(purls, url, info, t) ==
    Put(purls, url, [processed_at |-> t, info |-> info])

\* hashlib.md5 of the text: a digest that tells any two texts here apart
get_file_hash(text) == [md5 |-> text]

----------------------------------------------------------------------------
(* MarkdownProcessor.update_file_with_formatted_refs *)

\* the citation directly under the url line, without the empty line
RECURSIVE InsertAfterNoBlank(_, _, _)
InsertAfterNoBlank(lines, url, formatted) ==
    IF lines = <<>> THEN <<>>
    ELSE <<Head(lines)>>
         \o (IF LineIsUrl(Head(lines), url)
             THEN <<CiteLine(formatted)>> ELSE <<>>)
         \o InsertAfterNoBlank(Tail(lines), url, formatted)

RECURSIVE InsertAfter(_, _, _)
InsertAfter(lines, url, formatted) ==
    IF lines = <<>> THEN <<>>
    ELSE <<Head(lines)>>
         \o (IF LineIsUrl(Head(lines), url)
             THEN <<BlankLine, CiteLine(formatted)>> ELSE <<>>)
         \o InsertAfter(Tail(lines), url, formatted)

RECURSIVE update_file_with_formatted_refs(_, _)
update_file_with_formatted_refs(content, res) ==
    IF res = <<>> THEN content
    ELSE update_file_with_formatted_refs(
             InsertAfter(content, Head(res).url,
                         to_markdown(Head(res).paper_info, Head(res).pdf_path)),
             Tail(res))

----------------------------------------------------------------------------
(* Initial state: main() has built StateManager, MarkdownProcessor and the *)
(* handler, the observer runs, and no state file exists yet.               *)

RECURSIVE SeqsOfLen(_, _)
SeqsOfLen(S, n) ==
    IF n = 0 THEN {<<>>}
    ELSE {Append(q, x) : q \in SeqsOfLen(S, n - 1), x \in S}

Notes == UNION {SeqsOfLen({UrlLine(u) : u \in NoteUrls}, n) : n \in 1..MaxLinks}

StartTime == 2
DebounceWindow == 2
LoopSleep == 1
LinkSleep == 2

Ev(op, url, ok) == [op |-> op, url |-> url, ok |-> ok]

RetryIdle ==
    /\ attempt = 0
    /\ responses = <<>>
    /\ sleeps = <<>>
    /\ rq_pc = "idle"
    /\ rq_result = None

Init ==
    /\ files \in [Paths -> Notes]
    /\ processed_urls = EmptyMap
    /\ file_hashes = EmptyMap
    /\ disk = NoStateFile
    /\ now = StartTime
    /\ pending_files = {}
    /\ last_event_time = EmptyMap
    /\ pc = "idle"
    /\ ret = "idle"
    /\ queue = <<>>
    /\ urls = <<>>
    /\ idx = 0
    /\ paper_info = None
    /\ results = <<>>
    /\ ev = Ev("start", NoUrl, TRUE)
    /\ everPersisted = {}
    /\ failed = {}
    /\ crashes = 0
    /\ state_keys = StateKeys
    /\ deleted = {}
    /\ dirty = {}
    /\ resolveTimes = <<>>
    /\ rs_pc = "idle"
    /\ rs_calls = <<>>
    /\ inflight = {}
    /\ rewrites = 0
    /\ RetryIdle

----------------------------------------------------------------------------
(* PaperWatcherHandler.on_modified, run by the observer thread *)

Events ==
    {[src_path |-> p, is_directory |-> FALSE] : p \in Paths \cup {StateFilePath}}
        \cup {[src_path |-> PdfDirPath, is_directory |-> TRUE]}

DebouncedNever(current_time, last_time) == FALSE

\* if current_time - last_time < 2: return
Debounced(current_time, last_time) ==
    current_time - last_time < DebounceWindow

on_modified(event) ==
    /\ pc \notin {"down", "exit"}
    /\ IF event.is_directory
       THEN UNCHANGED <<last_event_time, pending_files, dirty>>
       ELSE IF event.src_path.ext # ".md"
       THEN UNCHANGED <<last_event_time, pending_files, dirty>>
       ELSE LET current_time == now
                last_time == Get(last_event_time, event.src_path, 0)
            IN  IF Debounced(current_time, last_time)
                THEN UNCHANGED <<last_event_time, pending_files, dirty>>
                ELSE /\ last_event_time' =
                            Put(last_event_time, event.src_path, current_time)
                     /\ pending_files' = pending_files \cup {event.src_path}
                     /\ dirty' = dirty \cup {event.src_path}
    /\ UNCHANGED <<files, processed_urls, file_hashes, disk, now, pc, ret, queue,
                   urls, idx, paper_info, results, ev, everPersisted, failed, crashes>>
    /\ UNCHANGED retryVars
    /\ UNCHANGED rewrites
    /\ UNCHANGED auxVars
    /\ UNCHANGED resolveTimes

OnModified ==
    /\ \E event \in Events : on_modified(event)
    /\ UNCHANGED inflight

----------------------------------------------------------------------------
(* main(): while True: time.sleep(1); handler.process_pending() *)

ListsOf(S) ==
    {q \in [1..Cardinality(S) -> S] : {q[i] : i \in 1..Cardinality(S)} = S}

\* time.sleep(1), then process_pending takes list(self.pending_files)
LoopIter ==
    /\ pc = "idle"
    /\ now + LoopSleep <= MaxTime
    /\ now' = now + LoopSleep
    /\ queue' \in ListsOf(pending_files)
    /\ pc' = IF pending_files = {} THEN "idle" ELSE "pp"
    /\ ev' = Ev("loop", NoUrl, pending_files # {})
    /\ UNCHANGED <<files, processed_urls, file_hashes, disk, pending_files,
                   last_event_time, ret, urls, idx, paper_info, results,
                   everPersisted, failed, crashes>>
    /\ UNCHANGED retryVars
    /\ UNCHANGED notifVars
    /\ UNCHANGED auxVars
    /\ UNCHANGED histVars

filepath == Head(queue)

\* process_file reads the note and extracts its urls
ProcessFileBegin ==
    /\ pc = "pp"
    /\ filepath \notin deleted
    /\ urls' = find_urls_in_text(files[filepath])
    /\ idx' = 1
    /\ results' = <<>>
    /\ paper_info' = None
    /\ pc' = "scan"
    /\ ev' = Ev("read", NoUrl, TRUE)
    /\ UNCHANGED <<files, processed_urls, file_hashes, disk, now, pending_files,
                   last_event_time, ret, queue, everPersisted, failed, crashes>>
    /\ UNCHANGED retryVars
    /\ UNCHANGED notifVars
    /\ UNCHANGED auxVars
    /\ dirty' = dirty \ {filepath}
    /\ resolveTimes' = <<>>

AtUrl == pc = "scan" /\ idx <= Len(urls)
url == urls[idx]

\* a "break" where the code has "continue"
NextIdxOnFailBreak(i) == Len(urls) + 1

\* "continue" after _process_arxiv returned None: the for loop takes the next url
NextIdxOnFail(i) == i + 1

\* the local path kept although the download failed
DownloadedPathKept(ok, info) == Some(RelPdfPath(generate_filename(info)))

\* relative_pdf_path after PDFDownloader.download returned ok
DownloadedPath(ok, info) ==
    IF ok THEN Some(RelPdfPath(generate_filename(info))) ELSE None

\* if self.state.is_url_processed(url): continue
SkipProcessed ==
    /\ AtUrl
    /\ is_url_processed(processed_urls, url)
    /\ idx' = idx + 1
    /\ ev' = Ev("skip", url, TRUE)
    /\ UNCHANGED <<files, processed_urls, file_hashes, disk, now, pending_files,
                   last_event_time, pc, ret, queue, urls, paper_info, results,
                   everPersisted, failed, crashes>>
    /\ UNCHANGED retryVars
    /\ UNCHANGED notifVars
    /\ UNCHANGED auxVars
    /\ UNCHANGED histVars

\* arxiv_id = extract_arxiv_id(url); paper_info = self._process_arxiv(arxiv_id)
ResolveArxiv ==
    /\ AtUrl
    /\ ~is_url_processed(processed_urls, url)
    /\ Truthy(extract_arxiv_id(url))
    /\ \E r \in ProcessArxivResults(extract_arxiv_id(url)[1]) :
          /\ paper_info' = r
          /\ IF r = None
             THEN idx' = NextIdxOnFail(idx) /\ pc' = pc /\ failed' = failed \cup {url}
             ELSE idx' = idx /\ pc' = "download" /\ failed' = failed \ {url}
          /\ ev' = Ev("resolve", url, r # None)
    /\ UNCHANGED <<files, processed_urls, file_hashes, disk, now, pending_files,
                   last_event_time, ret, queue, urls, results, everPersisted,
                   crashes>>
    /\ UNCHANGED retryVars
    /\ UNCHANGED notifVars
    /\ UNCHANGED auxVars
    /\ resolveTimes' = Append(resolveTimes, now)
    /\ UNCHANGED dirty

\* PDFDownloader.download(...); results.append((url, paper_info, relative_pdf_path))
Download ==
    /\ pc = "download"
    /\ \E ok \in BOOLEAN :
          /\ results' = Append(results,
                 [url |-> url, paper_info |-> paper_info[1],
                  pdf_path |-> DownloadedPath(ok, paper_info[1])])
          /\ ev' = Ev("download", url, ok)
    /\ pc' = "mark"
    /\ UNCHANGED <<files, processed_urls, file_hashes, disk, now, pending_files,
                   last_event_time, ret, queue, urls, idx, paper_info,
                   everPersisted, failed, crashes>>
    /\ UNCHANGED retryVars
    /\ UNCHANGED notifVars
    /\ UNCHANGED auxVars
    /\ UNCHANGED histVars

\* mark_url_processed(url, {...}): the entry is set and save_state opens the file
MarkArxiv ==
    /\ pc = "mark"
    /\ processed_urls' = SetProcessed(processed_urls, url,
           Snapshot(Some(paper_info[1].title), extract_arxiv_id(url), None), now)
    /\ disk' = TruncatedFile
    /\ pc' = "save"
    /\ ret' = "sleep"
    /\ ev' = Ev("mark", url, TRUE)
    /\ UNCHANGED <<files, file_hashes, now, pending_files, last_event_time, queue,
                   urls, idx, paper_info, results, everPersisted, failed, crashes>>
    /\ UNCHANGED retryVars
    /\ UNCHANGED notifVars
    /\ UNCHANGED auxVars
    /\ UNCHANGED histVars

\* save_state: json.dump has written the whole document
SaveDone ==
    /\ pc = "save"
    /\ disk' = WrittenFile(processed_urls, file_hashes)
    /\ everPersisted' = everPersisted \cup DOMAIN processed_urls
    /\ pc' = ret
    /\ ev' = Ev("saved", NoUrl, TRUE)
    /\ UNCHANGED <<files, processed_urls, file_hashes, now, pending_files,
                   last_event_time, ret, queue, urls, idx, paper_info, results,
                   failed, crashes>>
    /\ UNCHANGED retryVars
    /\ UNCHANGED notifVars
    /\ UNCHANGED auxVars
    /\ UNCHANGED histVars

\* time.sleep(2) after a link was marked
LinkPause ==
    /\ pc = "sleep"
    /\ now + LinkSleep <= MaxTime
    /\ now' = now + LinkSleep
    /\ idx' = idx + 1
    /\ paper_info' = None
    /\ pc' = "scan"
    /\ ev' = Ev("sleep", NoUrl, TRUE)
    /\ UNCHANGED <<files, processed_urls, file_hashes, disk, pending_files,
                   last_event_time, ret, queue, urls, results, everPersisted, failed,
                   crashes>>
    /\ UNCHANGED retryVars
    /\ UNCHANGED notifVars
    /\ UNCHANGED auxVars
    /\ UNCHANGED histVars

\* doi = extract_doi(url); self.state.mark_url_processed(url, {"doi": doi})
MarkDoi ==
    /\ AtUrl
    /\ ~is_url_processed(processed_urls, url)
    /\ ~Truthy(extract_arxiv_id(url))
    /\ Truthy(extract_doi(url))
    /\ processed_urls' = SetProcessed(processed_urls, url,
           Snapshot(None, None, extract_doi(url)), now)
    /\ disk' = TruncatedFile
    /\ idx' = idx + 1
    /\ pc' = "save"
    /\ ret' = "scan"
    /\ ev' = Ev("doi", url, TRUE)
    /\ UNCHANGED <<files, file_hashes, now, pending_files, last_event_time, queue,
                   urls, paper_info, results, everPersisted, failed, crashes>>
    /\ UNCHANGED retryVars
    /\ UNCHANGED notifVars
    /\ UNCHANGED auxVars
    /\ UNCHANGED histVars

\* neither an arXiv identifier nor a DOI: the url is ignored
IgnoreUnknown ==
    /\ AtUrl
    /\ ~is_url_processed(processed_urls, url)
    /\ ~Truthy(extract_arxiv_id(url))
    /\ ~Truthy(extract_doi(url))
    /\ idx' = idx + 1
    /\ ev' = Ev("unknown", url, FALSE)
    /\ UNCHANGED <<files, processed_urls, file_hashes, disk, now, pending_files,
                   last_event_time, pc, ret, queue, urls, paper_info, results,
                   everPersisted, failed, crashes>>
    /\ UNCHANGED retryVars
    /\ UNCHANGED notifVars
    /\ UNCHANGED auxVars
    /\ UNCHANGED histVars

\* process_file returned results: update_file_with_formatted_refs(filepath, results)
Rewrite ==
    /\ pc = "scan"
    /\ idx > Len(urls)
    /\ results # <<>>
    /\ files' = [files EXCEPT ![filepath] =
                     update_file_with_formatted_refs(files[filepath], results)]
    /\ pc' = "hash"
    /\ ev' = Ev("rewrite", NoUrl, TRUE)
    /\ UNCHANGED <<processed_urls, file_hashes, disk, now, pending_files,
                   last_event_time, ret, queue, urls, idx, paper_info, results,
                   everPersisted, failed, crashes>>
    /\ UNCHANGED retryVars
    /\ UNCHANGED notifVars
    /\ UNCHANGED auxVars
    /\ UNCHANGED histVars

\* process_file returned no results
NoNewLinks ==
    /\ pc = "scan"
    /\ idx > Len(urls)
    /\ results = <<>>
    /\ pc' = "hash"
    /\ ev' = Ev("nothing", NoUrl, TRUE)
    /\ UNCHANGED <<files, processed_urls, file_hashes, disk, now, pending_files,
                   last_event_time, ret, queue, urls, idx, paper_info, results,
                   everPersisted, failed, crashes>>
    /\ UNCHANGED retryVars
    /\ UNCHANGED notifVars
    /\ UNCHANGED auxVars
    /\ UNCHANGED histVars

\* self.state.update_file_hash(filepath): the hash is set and save_state opens the file
UpdateFileHash ==
    /\ pc = "hash"
    /\ file_hashes' = Put(file_hashes, filepath, get_file_hash(files[filepath]))
    /\ disk' = TruncatedFile
    /\ pc' = "save"
    /\ ret' = "discard"
    /\ ev' = Ev("hash", NoUrl, TRUE)
    /\ UNCHANGED <<files, processed_urls, now, pending_files, last_event_time,
                   queue, urls, idx, paper_info, results, everPersisted, failed, crashes>>
    /\ UNCHANGED retryVars
    /\ UNCHANGED notifVars
    /\ UNCHANGED auxVars
    /\ UNCHANGED histVars

\* self.pending_files.discard(filepath), and the for loop goes on
Discard ==
    /\ pc = "discard"
    /\ pending_files' = pending_files \ {filepath}
    /\ queue' = Tail(queue)
    /\ pc' = IF Tail(queue) = <<>> THEN "idle" ELSE "pp"
    /\ ev' = Ev("discard", NoUrl, TRUE)
    /\ UNCHANGED <<files, processed_urls, file_hashes, disk, now, last_event_time,
                   ret, urls, idx, paper_info, results, everPersisted, failed, crashes>>
    /\ UNCHANGED retryVars
    /\ UNCHANGED notifVars
    /\ UNCHANGED auxVars
    /\ resolveTimes' = <<>>
    /\ UNCHANGED dirty

----------------------------------------------------------------------------
(* The process is killed, and started again: StateManager.__init__ loads   *)
(* the state file, the handler starts with nothing pending.                *)

Crash ==
    /\ pc # "down"
    /\ crashes < MaxCrashes
    /\ crashes' = crashes + 1
    /\ pc' = "down"
    /\ processed_urls' = EmptyMap
    /\ file_hashes' = EmptyMap
    /\ pending_files' = {}
    /\ last_event_time' = EmptyMap
    /\ ret' = "idle"
    /\ queue' = <<>>
    /\ urls' = <<>>
    /\ idx' = 0
    /\ paper_info' = None
    /\ results' = <<>>
    /\ ev' = Ev("crash", NoUrl, FALSE)
    /\ UNCHANGED <<files, disk, now, everPersisted, failed>>
    /\ UNCHANGED retryVars
    /\ UNCHANGED notifVars
    /\ UNCHANGED auxVars
    /\ dirty' = {}
    /\ resolveTimes' = <<>>

Restart ==
    /\ pc = "down"
    /\ processed_urls' = _load_state(disk).processed_urls
    /\ file_hashes' = _load_state(disk).file_hashes
    /\ pc' = "idle"
    /\ ev' = Ev("restart", NoUrl, TRUE)
    /\ UNCHANGED <<files, disk, now, pending_files, last_event_time, ret, queue,
                   urls, idx, paper_info, results, everPersisted, failed, crashes>>
    /\ UNCHANGED retryVars
    /\ UNCHANGED notifVars
    /\ state_keys' = _load_state(disk).keys
    /\ UNCHANGED <<deleted, rs_pc, rs_calls>>
    /\ UNCHANGED histVars

Next ==
    \/ OnModified
    \/ LoopIter
    \/ ProcessFileBegin
    \/ SkipProcessed
    \/ ResolveArxiv
    \/ Download
    \/ MarkArxiv
    \/ SaveDone
    \/ LinkPause
    \/ MarkDoi
    \/ IgnoreUnknown
    \/ Rewrite
    \/ NoNewLinks
    \/ UpdateFileHash
    \/ Discard
    \/ Crash
    \/ Restart

Spec == Init /\ [][Next]_vars

----------------------------------------------------------------------------
(* SemanticScholarAPI._request_with_retry, one call, step by step.  The    *)
(* answers of the transport are inputs: a status code or a raised fault.   *)

max_retries == 3
RateLimitStep == 3
FaultSleep == 2

StatusCodes == {"200", "429", "403", "404", "500"}
Faults == {"timeout", "connection"}
Answers == StatusCodes \cup Faults

JsonBody == Some("json")

\* a flat backoff
WaitTimeFlat(a) == RateLimitStep

\* wait_time = (attempt + 1) * 3
WaitTime(a) == (a + 1) * RateLimitStep

\* a pause after the first fault only
SleepsAfterFirstFault(a) == a < 1

\* if attempt < max_retries - 1: time.sleep(2)
SleepsAfterFault(a) == a < max_retries - 1

\* for attempt in range(max_retries): the loop body runs again, or the loop
\* is over and the function returns None
LoopNext(a) ==
    /\ attempt' = a
    /\ IF a < max_retries
       THEN rq_pc' = "request" /\ rq_result' = rq_result
       ELSE rq_pc' = "done" /\ rq_result' = None

OnePipeline ==
    /\ files = [p \in Paths |-> <<UrlLine(UAbsA)>>]
    /\ processed_urls = EmptyMap
    /\ file_hashes = EmptyMap
    /\ disk = NoStateFile
    /\ now = StartTime
    /\ pending_files = {}
    /\ last_event_time = EmptyMap
    /\ pc = "idle"
    /\ ret = "idle"
    /\ queue = <<>>
    /\ urls = <<>>
    /\ idx = 0
    /\ paper_info = None
    /\ results = <<>>
    /\ ev = Ev("start", NoUrl, TRUE)
    /\ everPersisted = {}
    /\ failed = {}
    /\ crashes = 0
    /\ state_keys = StateKeys
    /\ deleted = {}
    /\ dirty = {}
    /\ resolveTimes = <<>>
    /\ rs_pc = "idle"
    /\ rs_calls = <<>>
    /\ inflight = {}
    /\ rewrites = 0

\* the call has been made: for attempt in range(max_retries) starts
InitRetry ==
    /\ OnePipeline
    /\ attempt = 0
    /\ responses = <<>>
    /\ sleeps = <<>>
    /\ rq_pc = "request"
    /\ rq_result = None

\* requests.get(...) and the branch its answer takes
RqSend ==
    /\ rq_pc = "request"
    /\ \E a \in Answers :
          /\ responses' = Append(responses, a)
          /\ IF a = "200"
             THEN /\ rq_result' = JsonBody
                  /\ rq_pc' = "done"
                  /\ attempt' = attempt
             ELSE IF a = "429"
             THEN /\ rq_pc' = "backoff"
                  /\ UNCHANGED <<attempt, rq_result>>
             ELSE IF a \in Faults
             THEN IF SleepsAfterFault(attempt)
                  THEN /\ rq_pc' = "faultsleep"
                       /\ UNCHANGED <<attempt, rq_result>>
                  ELSE LoopNext(attempt + 1)
             ELSE /\ rq_result' = None
                  /\ rq_pc' = "done"
                  /\ attempt' = attempt
    /\ UNCHANGED sleeps
    /\ UNCHANGED pipeVars

\* time.sleep(wait_time); continue
RqBackoff ==
    /\ rq_pc = "backoff"
    /\ sleeps' = Append(sleeps, WaitTime(attempt))
    /\ LoopNext(attempt + 1)
    /\ UNCHANGED responses
    /\ UNCHANGED pipeVars

\* time.sleep(2); continue
RqFaultSleep ==
    /\ rq_pc = "faultsleep"
    /\ sleeps' = Append(sleeps, FaultSleep)
    /\ LoopNext(attempt + 1)
    /\ UNCHANGED responses
    /\ UNCHANGED pipeVars

NextRetry == RqSend \/ RqBackoff \/ RqFaultSleep

SpecRetry == InitRetry /\ [][NextRetry]_vars

----------------------------------------------------------------------------
(* StateManager used directly: its operations in any order, each run to    *)
(* its end, while the clock advances.                                      *)

SnapshotOf(u) ==
    IF Truthy(extract_arxiv_id(u))
    THEN Snapshot(Some(<<"Foo">>), extract_arxiv_id(u), None)
    ELSE Snapshot(None, None, extract_doi(u))

InitStore ==
    /\ OnePipeline
    /\ RetryIdle

\* mark_url_processed(url, paper_info), save_state included
StoreMark ==
    /\ \E u \in NoteUrls :
          /\ processed_urls' = SetProcessed(processed_urls, u, SnapshotOf(u), now)
          /\ ev' = Ev("mark", u, is_url_processed(processed_urls, u))
    /\ disk' = WrittenFile(processed_urls', file_hashes)
    /\ everPersisted' = everPersisted \cup DOMAIN processed_urls'
    /\ UNCHANGED <<files, file_hashes, now, pending_files, last_event_time, pc,
                   ret, queue, urls, idx, paper_info, results, failed, crashes>>
    /\ UNCHANGED retryVars
    /\ UNCHANGED notifVars
    /\ UNCHANGED auxVars
    /\ UNCHANGED histVars

\* update_file_hash(filepath), save_state included
StoreUpdateHash ==
    /\ \E p \in Paths :
          file_hashes' = Put(file_hashes, p, get_file_hash(files[p]))
    /\ disk' = WrittenFile(processed_urls, file_hashes')
    /\ ev' = Ev("hash", NoUrl, TRUE)
    /\ UNCHANGED <<files, processed_urls, now, pending_files, last_event_time, pc,
                   ret, queue, urls, idx, paper_info, results, everPersisted,
                   failed, crashes>>
    /\ UNCHANGED retryVars
    /\ UNCHANGED notifVars
    /\ UNCHANGED auxVars
    /\ UNCHANGED histVars

\* a new StateManager(state_file)
StoreReload ==
    /\ processed_urls' = _load_state(disk).processed_urls
    /\ file_hashes' = _load_state(disk).file_hashes
    /\ ev' = Ev("restart", NoUrl, TRUE)
    /\ UNCHANGED <<files, disk, now, pending_files, last_event_time, pc, ret,
                   queue, urls, idx, paper_info, results, everPersisted, failed,
                   crashes>>
    /\ UNCHANGED retryVars
    /\ UNCHANGED notifVars
    /\ state_keys' = _load_state(disk).keys
    /\ UNCHANGED <<deleted, rs_pc, rs_calls>>
    /\ UNCHANGED histVars

StoreTick ==
    /\ now < MaxTime
    /\ now' = now + 1
    /\ ev' = Ev("tick", NoUrl, TRUE)
    /\ UNCHANGED <<files, processed_urls, file_hashes, disk, pending_files,
                   last_event_time, pc, ret, queue, urls, idx, paper_info,
                   results, everPersisted, failed, crashes>>
    /\ UNCHANGED retryVars
    /\ UNCHANGED notifVars
    /\ UNCHANGED auxVars
    /\ UNCHANGED histVars

NextStore == StoreMark \/ StoreUpdateHash \/ StoreReload \/ StoreTick

SpecStore == InitStore /\ [][NextStore]_vars

----------------------------------------------------------------------------
(* The watch loop over two notes, with what the environment does to it:    *)
(* a note is deleted, a statement inside the try block raises, Ctrl+C.     *)

MaxDeleted == 1

LoopPaths == {Path("a", ".md"), Path("b", ".md")}

LoopEvents ==
    {[src_path |-> p, is_directory |-> FALSE] : p \in LoopPaths \cup {StateFilePath}}
        \cup {[src_path |-> PdfDirPath, is_directory |-> TRUE]}

OnModifiedLoop ==
    /\ \E event \in LoopEvents : on_modified(event)
    /\ UNCHANGED inflight

InitLoop ==
    /\ files = [p \in LoopPaths |->
                   IF p.name = "a" THEN <<UrlLine(UAbsA)>>
                   ELSE <<UrlLine(UDoi), UrlLine(UOther)>>]
    /\ processed_urls = EmptyMap
    /\ file_hashes = EmptyMap
    /\ disk = NoStateFile
    /\ now = StartTime
    /\ pending_files = {}
    /\ last_event_time = EmptyMap
    /\ pc = "idle"
    /\ ret = "idle"
    /\ queue = <<>>
    /\ urls = <<>>
    /\ idx = 0
    /\ paper_info = None
    /\ results = <<>>
    /\ ev = Ev("start", NoUrl, TRUE)
    /\ everPersisted = {}
    /\ failed = {}
    /\ crashes = 0
    /\ state_keys = StateKeys
    /\ deleted = {}
    /\ dirty = {}
    /\ resolveTimes = <<>>
    /\ rs_pc = "idle"
    /\ rs_calls = <<>>
    /\ inflight = {}
    /\ rewrites = 0
    /\ RetryIdle

\* a note is removed from the watched directory
DeleteFile ==
    /\ pc \notin {"down", "exit"}
    /\ Cardinality(deleted) < MaxDeleted
    /\ \E p \in LoopPaths \ deleted : deleted' = deleted \cup {p}
    /\ UNCHANGED <<files, processed_urls, file_hashes, disk, now, pending_files,
                   last_event_time, pc, ret, queue, urls, idx, paper_info,
                   results, ev, everPersisted, failed, crashes>>
    /\ UNCHANGED <<state_keys, rs_pc, rs_calls>>
    /\ UNCHANGED histVars
    /\ UNCHANGED retryVars
    /\ UNCHANGED notifVars

\* if not os.path.exists(filepath): self.pending_files.discard(filepath); continue
MissingFile ==
    /\ pc = "pp"
    /\ filepath \in deleted
    /\ pending_files' = pending_files \ {filepath}
    /\ queue' = Tail(queue)
    /\ pc' = IF Tail(queue) = <<>> THEN "idle" ELSE "pp"
    /\ ev' = Ev("missing", NoUrl, FALSE)
    /\ UNCHANGED <<files, processed_urls, file_hashes, disk, now, last_event_time,
                   ret, urls, idx, paper_info, results, everPersisted, failed, crashes>>
    /\ UNCHANGED retryVars
    /\ UNCHANGED notifVars
    /\ UNCHANGED auxVars
    /\ UNCHANGED histVars

\* the positions of the try block of process_pending at which a statement
\* raises: open() in process_file, the resolver, generate_filename, the
\* prints of the results, open() in update_file_with_formatted_refs and in
\* get_file_hash
RaisePoints == {"pp", "scan", "download", "hash"}

\* the exception leaves the program: no handler
ExceptionPropagates(at) == "exit"

\* except Exception as e: print(...), and the statement after the try follows
ExceptionCaught(at) == "discard"

Raise ==
    /\ pc \in RaisePoints
    /\ pc = "pp" => filepath \notin deleted
    /\ pc' = ExceptionCaught(pc)
    /\ ev' = Ev("raise", NoUrl, FALSE)
    /\ dirty' = IF pc = "pp" THEN dirty \ {filepath} ELSE dirty
    /\ UNCHANGED <<files, processed_urls, file_hashes, disk, now, pending_files,
                   last_event_time, ret, queue, urls, idx, paper_info, results,
                   everPersisted, failed, crashes>>
    /\ UNCHANGED retryVars
    /\ UNCHANGED notifVars
    /\ UNCHANGED auxVars
    /\ UNCHANGED resolveTimes

\* Ctrl+C: KeyboardInterrupt is raised in the main thread at the statement it
\* is executing; except Exception does not catch it, main() does:
\* observer.stop(), observer.join(), exit
Interrupt ==
    /\ pc \notin {"down", "exit"}
    /\ pc' = "exit"
    /\ ev' = Ev("interrupt", NoUrl, TRUE)
    /\ UNCHANGED <<files, processed_urls, file_hashes, disk, now, pending_files,
                   last_event_time, ret, queue, urls, idx, paper_info, results,
                   everPersisted, failed, crashes>>
    /\ UNCHANGED retryVars
    /\ UNCHANGED notifVars
    /\ UNCHANGED auxVars
    /\ UNCHANGED histVars

NextLoop ==
    \/ OnModifiedLoop
    \/ LoopIter
    \/ ProcessFileBegin
    \/ SkipProcessed
    \/ ResolveArxiv
    \/ Download
    \/ MarkArxiv
    \/ SaveDone
    \/ LinkPause
    \/ MarkDoi
    \/ IgnoreUnknown
    \/ Rewrite
    \/ NoNewLinks
    \/ UpdateFileHash
    \/ Discard
    \/ DeleteFile
    \/ MissingFile
    \/ Raise
    \/ Interrupt

SpecLoop == InitLoop /\ [][NextLoop]_vars

----------------------------------------------------------------------------
(* Claims *)

IsArxivUrl(u) == Truthy(extract_arxiv_id(u))

\* the url stands alone on line i of the note
UrlAt(p, i) == files[p][i].kind = "url" /\ Len(files[p][i].refs) = 1

\* C1: once a url has been in the persisted processed set, no run of
\* process_file resolves its metadata or downloads its PDF again, also after
\* the process stopped and a new StateManager loaded the state file.
C1_NeverReprocessed ==
    ev.op \in {"resolve", "download"} => ev.url \notin everPersisted

\* a completed scan of the note stands: its hash is the recorded one and all
\* its arXiv links are processed
ScanCompleted(p) ==
    /\ p \in DOMAIN file_hashes
    /\ file_hashes[p] = get_file_hash(files[p])
    /\ \A i \in 1..Len(files[p]) :
          (UrlAt(p, i) /\ IsArxivUrl(files[p][i].refs[1]))
              => is_url_processed(processed_urls, files[p][i].refs[1])

\* C2: after a completed scan of a note (links resolved, note rewritten, state
\* flushed), a scan of the resulting note, with no edit and no restart in
\* between, performs no metadata resolution.
C2_RescanIdempotent ==
    ~ /\ ev.op = "resolve"
      /\ crashes = 0
      /\ queue # <<>>
      /\ ScanCompleted(filepath)

\* C3: mark_url_processed on a url that is already marked is a no-op: an entry
\* of the processed set is never overwritten or deleted.
C3_MarkIdempotent ==
    [][\A u \in DOMAIN processed_urls :
          /\ u \in DOMAIN processed_urls'
          /\ processed_urls'[u] = processed_urls[u]]_vars

\* C4: a url is in the processed set only after the note was rewritten with its
\* citation: every processed arXiv url that stands alone on a line of a note
\* has its blank line and citation below it.
C4_RecordAfterRewrite ==
    \A p \in Paths : \A i \in 1..Len(files[p]) :
        (/\ UrlAt(p, i)
         /\ IsArxivUrl(files[p][i].refs[1])
         /\ is_url_processed(processed_urls, files[p][i].refs[1]))
            => /\ i + 2 <= Len(files[p])
               /\ files[p][i + 1].kind = "blank"
               /\ files[p][i + 2].kind = "cite"

\* C5: a link whose resolution gave no record is not put in the processed set,
\* the for loop goes on with the next link of the note, and a scan that comes
\* to the link again resolves it again instead of skipping it.
C5_FailedLinkRetried ==
    /\ failed \cap DOMAIN processed_urls = {}
    /\ (ev.op = "resolve" /\ ~ev.ok)
          => /\ pc = "scan"
             /\ idx \in 2..(Len(urls) + 1)
             /\ urls[idx - 1] = ev.url
             /\ paper_info = None
             /\ ev.url \in failed
    /\ (AtUrl /\ url \in failed) => (ENABLED ResolveArxiv /\ ~ENABLED SkipProcessed)

\* a second scan of the note: its first link fails again, and its second link
\* has been resolved and marked in the same run
C5_Witness ==
    /\ ev.op = "mark"
    /\ crashes = 0
    /\ idx = 2
    /\ urls[1] \in failed
    /\ urls[1] # urls[2]
    /\ filepath \in DOMAIN file_hashes
    /\ urls[2] \in DOMAIN processed_urls

NoPdfFragment(formatted) ==
    \A i \in 1..Len(formatted.links) : formatted.links[i].label # "PDF"

\* C6: a failed download still appends the triple, with no local path; the
\* citation of such a triple has no (PDF) fragment; and every triple of the
\* results is marked processed, the last one at the latest by the next step.
C6_DownloadFailureDegrades ==
    /\ (ev.op = "download" /\ ~ev.ok)
          => /\ pc = "mark"
             /\ results # <<>>
             /\ results[Len(results)].url = ev.url
             /\ results[Len(results)].pdf_path = None
    /\ \A i \in 1..Len(results) :
          /\ results[i].pdf_path = None
                => NoPdfFragment(to_markdown(results[i].paper_info,
                                             results[i].pdf_path))
          /\ \/ is_url_processed(processed_urls, results[i].url)
             \/ i = Len(results) /\ pc = "mark" /\ ENABLED MarkArxiv

\* the note has been rewritten with the citation of a paper whose download
\* failed, and its url is marked
C6_Witness ==
    /\ ev.op = "rewrite"
    /\ crashes = 0
    /\ \E i \in 1..Len(results) :
          /\ results[i].pdf_path = None
          /\ is_url_processed(processed_urls, results[i].url)
          /\ \E j \in 1..Len(files[filepath]) :
                /\ files[filepath][j] =
                      CiteLine(to_markdown(results[i].paper_info, None))
                /\ NoPdfFragment(files[filepath][j].cite[1])

\* C7: the state file is written atomically: a restart never loses an entry of
\* the processed set that a complete state file held.
C7_NoPersistedEntryLost ==
    pc # "down" => everPersisted \subseteq DOMAIN processed_urls

AllAnswers(S) == responses # <<>> /\ \A i \in 1..Len(responses) : responses[i] \in S

\* C8: a request that is always answered 429 is retried 3 times after the first
\* attempt, sleeping 3s, 6s and 9s, each sleep followed by a retry, and fails.
C8_RateLimitThreeRetries ==
    (rq_pc = "done" /\ AllAnswers({"429"}))
        => /\ Len(responses) = 1 + 3
           /\ sleeps = <<3, 6, 9>>
           /\ Len(responses) = Len(sleeps) + 1
           /\ rq_result = None

\* C9: answered 429, 429, 200 the call returns the body after exactly 3
\* requests, having slept 3s and then 6s and nothing else.
C9_TwoRateLimitsThenSuccess ==
    (Len(responses) >= 3 /\ SubSeq(responses, 1, 3) = <<"429", "429", "200">>)
        => /\ rq_pc = "done"
           /\ Len(responses) = 3
           /\ rq_result = JsonBody
           /\ sleeps = <<3, 6>>

C9_Witness ==
    /\ rq_pc = "done"
    /\ responses = <<"429", "429", "200">>
    /\ rq_result = JsonBody

\* C10, as claimed: a request whose every attempt raises a transport fault
\* makes exactly 2 attempts.
C10_FaultRetriedOnce ==
    (rq_pc = "done" /\ AllAnswers(Faults)) => Len(responses) = 2

\* C10, amended: a request whose every attempt raises a transport fault makes
\* exactly 3 attempts, sleeps a flat 2s before each of the 2 retries, and fails.
C10_FaultRetriedTwice ==
    /\ AllAnswers(Faults) => Len(responses) <= 3
    /\ (rq_pc = "done" /\ AllAnswers(Faults))
          => /\ Len(responses) = 3
             /\ sleeps = <<2, 2>>
             /\ rq_result = None

C10_Witness ==
    /\ rq_pc = "done"
    /\ AllAnswers(Faults)
    /\ Len(responses) = 3
    /\ sleeps = <<2, 2>>

----------------------------------------------------------------------------
(* Claims on the watch loop over two notes *)

LastAccepted(let, p) == Get(let, p, 0)

\* the notification of path q is taken: q becomes pending, its time is now
Accepts(q) ==
    /\ on_modified([src_path |-> q, is_directory |-> FALSE])
    /\ UNCHANGED inflight
    /\ q \in pending_files'
    /\ LastAccepted(last_event_time', q) = now

\* C11: debouncing is per path.  A notification that comes less than 2 s
\* after the last accepted one of the same path changes neither the pending
\* set nor that path's last accepted time; two accepted notifications of a
\* path are at least 2 s apart; a step that accepts a notification of one
\* path leaves the other paths' entries alone, and a path outside its own
\* window is accepted whatever the windows of the others.
C11_DebouncePerPath ==
    /\ [][\A p \in LoopPaths :
            LET last == LastAccepted(last_event_time, p)
                last2 == LastAccepted(last_event_time', p)
            IN  /\ now - last < DebounceWindow =>
                      /\ last2 = last
                      /\ p \in pending_files' => p \in pending_files
                /\ last2 # last =>
                      /\ last2 - last >= DebounceWindow
                      /\ \A q \in LoopPaths \ {p} :
                            /\ LastAccepted(last_event_time', q) =
                                   LastAccepted(last_event_time, q)
                            /\ q \in pending_files' <=> q \in pending_files]_vars
    /\ [](\A q \in LoopPaths :
            (pc # "exit" /\ now - LastAccepted(last_event_time, q) >= DebounceWindow)
                => ENABLED Accepts(q))

\* C11 witness: b was accepted 1 s after a, inside a's window, and at this
\* moment a further notification of either path is inside its window
C11_Witness ==
    /\ LoopPaths \subseteq DOMAIN last_event_time
    /\ last_event_time[Path("b", ".md")] = last_event_time[Path("a", ".md")] + 1
    /\ now = last_event_time[Path("b", ".md")]
    /\ LoopPaths \subseteq pending_files

\* C12: an exception raised while one pending path is processed does not
\* end process_pending: the main thread leaves the loop only on Ctrl+C, the
\* call returns only when every path of the list it took has had its turn,
\* and a path leaves the list only together with leaving the pending set,
\* after its processing succeeded, raised, or the file was found missing.
C12_ExceptionKeepsLoop ==
    /\ [](pc = "exit" => ev.op = "interrupt")
    /\ [](ev.op = "raise" => pc = "discard")
    /\ [][/\ (pc # "idle" /\ pc' = "idle") => queue' = <<>>
          /\ (queue # <<>> /\ queue' # queue) =>
                /\ queue' = Tail(queue)
                /\ Head(queue) \notin pending_files'
                /\ \/ Head(queue) \in deleted
                   \/ ev.op \in {"raise", "saved"}]_vars

\* C12 witness: in the first call of process_pending, which took a and b,
\* a was read, raised before its link was resolved, and b is being read
C12_Witness ==
    /\ now = StartTime + LoopSleep
    /\ Path("a", ".md") \in DOMAIN last_event_time
    /\ last_event_time[Path("a", ".md")] = StartTime
    /\ Path("a", ".md") \notin pending_files \cup deleted
    /\ UAbsA \notin DOMAIN processed_urls \cup failed
    /\ queue = <<Path("b", ".md")>>
    /\ ev.op = "read"

\* C15: Ctrl+C stops the watch loop only between two poll iterations: when
\* the main thread has left the loop, no path of the list process_pending
\* took is left unhandled.
C15_InterruptAfterIteration ==
    pc = "exit" => queue = <<>>

\* C20: no accepted notification is lost: a path with an accepted
\* notification that no run of process_file has started after, and whose note
\* exists, is pending (so that a later poll iteration runs it).
C20_NoNotificationLost ==
    pc # "exit" => \A p \in dirty \ deleted : p \in pending_files

----------------------------------------------------------------------------
(* update_file_with_formatted_refs on any note text: process_pending has   *)
(* the results of process_file in hand and the note may have been edited   *)
(* since it was read.                                                      *)

RewriteLen == MaxLinks + 1

TextLine(u) == [kind |-> "text", refs |-> <<u>>, cite |-> None]

\* the records a resolution of the id can return
RewriteInfos == {r[1] : r \in ProcessArxivResults(IdA) \ {None}}

RewriteTriples(u) ==
    {[url |-> u, paper_info |-> i, pdf_path |-> DownloadedPath(ok, i)] :
        i \in RewriteInfos, ok \in BOOLEAN}

RewriteLines ==
    {UrlLine(UAbsA), UrlLine(UPdfA), UrlLine(UDoi), BlankLine, TextLine(UAbsA)}
        \cup {CiteLine(to_markdown(t.paper_info, t.pdf_path)) :
                 t \in {x \in RewriteTriples(UAbsA) : x.pdf_path = None}}

RewriteNotes == UNION {SeqsOfLen(RewriteLines, n) : n \in 0..RewriteLen}

\* process_file returns one triple per url it marked: the urls are distinct
RewriteResults ==
    {<<>>}
        \cup {<<t>> : t \in RewriteTriples(UAbsA) \cup RewriteTriples(UPdfA)}
        \cup {<<t1, t2>> : t1 \in RewriteTriples(UAbsA), t2 \in RewriteTriples(UPdfA)}
        \cup {<<t2, t1>> : t1 \in RewriteTriples(UAbsA), t2 \in RewriteTriples(UPdfA)}

InitRewrite ==
    /\ files \in [Paths -> RewriteNotes]
    /\ results \in RewriteResults
    /\ processed_urls = EmptyMap
    /\ file_hashes = EmptyMap
    /\ disk = NoStateFile
    /\ now = StartTime
    /\ pending_files = Paths
    /\ last_event_time = EmptyMap
    /\ pc = "scan"
    /\ ret = "idle"
    /\ queue \in ListsOf(Paths)
    /\ urls = <<>>
    /\ idx = 1
    /\ paper_info = None
    /\ ev = Ev("read", NoUrl, TRUE)
    /\ everPersisted = {}
    /\ failed = {}
    /\ crashes = 0
    /\ state_keys = StateKeys
    /\ deleted = {}
    /\ dirty = {}
    /\ resolveTimes = <<>>
    /\ rs_pc = "idle"
    /\ rs_calls = <<>>
    /\ inflight = {}
    /\ rewrites = 0
    /\ RetryIdle

NextRewrite ==
    \/ Rewrite
    \/ NoNewLinks

SpecRewrite == InitRewrite /\ [][NextRewrite]_vars

\* the triple of res whose url is the trimmed content of the line, if any
Supplied(line, res) == {i \in 1..Len(res) : LineIsUrl(line, res[i].url)}

\* new is old with, after each line that is a supplied url, an empty line
\* and that url's citation, and nothing else changed
RECURSIVE OnlyCitationsInserted(_, _, _)
OnlyCitationsInserted(old, new, res) ==
    IF old = <<>> THEN new = <<>>
    ELSE /\ new # <<>>
         /\ Head(new) = Head(old)
         /\ IF Supplied(Head(old), res) = {}
            THEN OnlyCitationsInserted(Tail(old), Tail(new), res)
            ELSE /\ Len(new) >= 3
                 /\ new[2] = BlankLine
                 /\ \E i \in Supplied(Head(old), res) :
                       new[3] = CiteLine(to_markdown(res[i].paper_info,
                                                     res[i].pdf_path))
                 /\ OnlyCitationsInserted(Tail(old), SubSeq(new, 4, Len(new)), res)

\* C13: the rewrite puts, after every line whose trimmed content is a
\* supplied url, exactly two lines, an empty one and the citation of that
\* url; every other line is kept, in order; with no results the text stays
\* what it was.
C13_RewriteInsertsOnly ==
    /\ [][pc = "scan" =>
            OnlyCitationsInserted(files[filepath], files'[filepath], results)]_vars
    /\ [](queue # <<>> =>
            update_file_with_formatted_refs(files[filepath], <<>>) = files[filepath])

\* C13 witness: a note of three lines, two of them supplied urls, has been
\* rewritten to seven lines
C13_Witness ==
    /\ ev.op = "rewrite"
    /\ Len(results) = 2
    /\ Len(files[filepath]) = 7
    /\ files[filepath][1].kind = "url"
    /\ files[filepath][3].kind = "cite"
    /\ files[filepath][4].kind = "text"
    /\ files[filepath][7].kind = "cite"

----------------------------------------------------------------------------
(* Claims on what is resolved, when, and through which service *)

\* C14: links are deduplicated by version-stripped arXiv id: no link is
\* resolved while a url with the same stripped id is in the processed set.
C14_DedupByStrippedId ==
    ev.op = "resolve" =>
        \A u \in DOMAIN processed_urls :
            Truthy(extract_arxiv_id(u)) =>
                extract_arxiv_id(u) # extract_arxiv_id(ev.url)

\* C17: within one scan of a note, two successive resolutions are at least
\* the 2-second pause apart, whether the earlier one gave a record or not.
C17_PauseBetweenResolutions ==
    \A i \in 1..(Len(resolveTimes) - 1) :
        resolveTimes[i + 1] - resolveTimes[i] >= LinkSleep

----------------------------------------------------------------------------
(* StateManager(state_file) on whatever file main() finds, then its        *)
(* operations.                                                             *)

\* no file, a file cut short, a file this program wrote, and documents
\* json.load accepts that hold both, one or none of the two mappings
FoundStateFiles ==
    {NoStateFile, TruncatedFile,
     WrittenFile(SetProcessed(EmptyMap, UAbsA, SnapshotOf(UAbsA), StartTime),
                 EmptyMap)}
        \cup {DumpedFile(k, EmptyMap, EmptyMap) : k \in SUBSET StateKeys}

InitLoad ==
    /\ files = [p \in Paths |-> <<UrlLine(UAbsA)>>]
    /\ processed_urls = EmptyMap
    /\ file_hashes = EmptyMap
    /\ disk \in FoundStateFiles
    /\ now = StartTime
    /\ pending_files = {}
    /\ last_event_time = EmptyMap
    /\ pc = "down"
    /\ ret = "idle"
    /\ queue = <<>>
    /\ urls = <<>>
    /\ idx = 0
    /\ paper_info = None
    /\ results = <<>>
    /\ ev = Ev("start", NoUrl, TRUE)
    /\ everPersisted = {}
    /\ failed = {}
    /\ crashes = 0
    /\ state_keys = StateKeys
    /\ deleted = {}
    /\ dirty = {}
    /\ resolveTimes = <<>>
    /\ rs_pc = "idle"
    /\ rs_calls = <<>>
    /\ inflight = {}
    /\ rewrites = 0
    /\ RetryIdle

\* return url in self.state["processed_urls"]
LoadLookup ==
    /\ pc = "idle"
    /\ \E u \in NoteUrls :
          ev' = IF "processed_urls" \in state_keys
                THEN Ev("lookup", u, is_url_processed(processed_urls, u))
                ELSE Ev("KeyError", u, FALSE)
    /\ UNCHANGED <<files, processed_urls, file_hashes, disk, now, pending_files,
                   last_event_time, pc, ret, queue, urls, idx, paper_info,
                   results, everPersisted, failed, crashes>>
    /\ UNCHANGED retryVars
    /\ UNCHANGED notifVars
    /\ UNCHANGED auxVars
    /\ UNCHANGED histVars

\* self.state["processed_urls"][url] = {...}; self.save_state()
LoadMark ==
    /\ pc = "idle"
    /\ \E u \in NoteUrls :
          IF "processed_urls" \in state_keys
          THEN /\ processed_urls' =
                      SetProcessed(processed_urls, u, SnapshotOf(u), now)
               /\ disk' = DumpedFile(state_keys, processed_urls', file_hashes)
               /\ ev' = Ev("mark", u, TRUE)
          ELSE /\ ev' = Ev("KeyError", u, FALSE)
               /\ UNCHANGED <<processed_urls, disk>>
    /\ UNCHANGED <<files, file_hashes, now, pending_files, last_event_time, pc,
                   ret, queue, urls, idx, paper_info, results, everPersisted,
                   failed, crashes>>
    /\ UNCHANGED retryVars
    /\ UNCHANGED notifVars
    /\ UNCHANGED auxVars
    /\ UNCHANGED histVars

\* self.state["file_hashes"][filepath] = ...; self.save_state()
LoadUpdateHash ==
    /\ pc = "idle"
    /\ \E p \in Paths :
          IF "file_hashes" \in state_keys
          THEN /\ file_hashes' = Put(file_hashes, p, get_file_hash(files[p]))
               /\ disk' = DumpedFile(state_keys, processed_urls, file_hashes')
               /\ ev' = Ev("hash", NoUrl, TRUE)
          ELSE /\ ev' = Ev("KeyError", NoUrl, FALSE)
               /\ UNCHANGED <<file_hashes, disk>>
    /\ UNCHANGED <<files, processed_urls, now, pending_files, last_event_time, pc,
                   ret, queue, urls, idx, paper_info, results, everPersisted,
                   failed, crashes>>
    /\ UNCHANGED retryVars
    /\ UNCHANGED notifVars
    /\ UNCHANGED auxVars
    /\ UNCHANGED histVars

NextLoad ==
    \/ Restart
    \/ LoadLookup
    \/ LoadMark
    \/ LoadUpdateHash

SpecLoad == InitLoad /\ [][NextLoad]_vars

\* C16: once the state is loaded, the state in memory holds both mappings
\* and no operation of the StateManager fails on a mapping that is absent.
C16_LoadedStateComplete ==
    pc = "idle" => (state_keys = StateKeys /\ ev.op # "KeyError")

----------------------------------------------------------------------------
(* MarkdownProcessor._process_arxiv, one call, query by query.  The        *)
(* answers of the two services are inputs.                                 *)

ResolveUrls ==
    {UAbsA, UPdfA}
        \cup {Ref("https", "arxiv.org", f, g) : f \in {"abs", "pdf"}, g \in OldStyleGrps}

Call(q, status, ok) == [q |-> q, status |-> status, ok |-> ok]

\* the arXiv feed is asked whatever the citation-graph service answered
AfterPrimaryAlwaysFallback(info) == "fallback"

\* if not paper_info: ArxivAPI.get_paper_info; if paper_info.citations is None:
\* get_citations
AfterPrimary(info) ==
    IF info = None THEN "fallback"
    ELSE IF info[1].citations = None THEN "backfill" ELSE "done"

\* what follows once the fallback has returned: return None, or the back-fill
AfterFallback(info) ==
    IF info = None THEN "done"
    ELSE IF info[1].citations = None THEN "backfill" ELSE "done"

rs_arxiv_id == extract_arxiv_id(urls[1])[1]

InitResolve ==
    /\ files = [p \in Paths |-> <<UrlLine(UAbsA)>>]
    /\ processed_urls = EmptyMap
    /\ file_hashes = EmptyMap
    /\ disk = NoStateFile
    /\ now = StartTime
    /\ pending_files = {}
    /\ last_event_time = EmptyMap
    /\ pc = "scan"
    /\ ret = "idle"
    /\ queue = <<>>
    /\ urls \in {<<u>> : u \in ResolveUrls}
    /\ idx = 1
    /\ paper_info = None
    /\ results = <<>>
    /\ ev = Ev("read", NoUrl, TRUE)
    /\ everPersisted = {}
    /\ failed = {}
    /\ crashes = 0
    /\ state_keys = StateKeys
    /\ deleted = {}
    /\ dirty = {}
    /\ resolveTimes = <<>>
    /\ rs_pc = "primary"
    /\ rs_calls = <<>>
    /\ inflight = {}
    /\ rewrites = 0
    /\ RetryIdle

RsFrame ==
    /\ UNCHANGED <<files, processed_urls, file_hashes, disk, now, pending_files,
                   last_event_time, pc, ret, queue, urls, idx, results, ev,
                   everPersisted, failed, crashes>>
    /\ UNCHANGED <<state_keys, deleted>>
    /\ UNCHANGED histVars
    /\ UNCHANGED retryVars
    /\ UNCHANGED notifVars

\* paper_info = SemanticScholarAPI.get_full_paper_info(arxiv_id)
RsPrimary ==
    /\ rs_pc = "primary"
    /\ \E data \in SSResponses :
          LET info == get_full_paper_info(rs_arxiv_id, data)
          IN  /\ paper_info' = info
              /\ rs_calls' = Append(rs_calls, Call("ss_full", "-", info # None))
              /\ rs_pc' = AfterPrimary(info)
    /\ RsFrame

\* paper_info = ArxivAPI.get_paper_info(arxiv_id), up to the answer of the feed
RsFallback ==
    /\ rs_pc = "fallback"
    /\ \E resp \in ArxivResponses :
          LET info == get_paper_info(rs_arxiv_id, resp, None)
          IN  /\ rs_calls' = Append(rs_calls, Call("arxiv", resp.status, info # None))
              /\ IF resp.status = "403"
                 THEN rs_pc' = "fallback_ss" /\ paper_info' = paper_info
                 ELSE rs_pc' = AfterFallback(info) /\ paper_info' = info
    /\ RsFrame

\* status 403: return cls._fallback_semantic_scholar(arxiv_id)
RsFallbackSS ==
    /\ rs_pc = "fallback_ss"
    /\ \E data \in SSResponses :
          LET info == get_paper_info(rs_arxiv_id,
                                     [status |-> "403", entry |-> None], data)
          IN  /\ paper_info' = info
              /\ rs_calls' = Append(rs_calls, Call("ss_full", "-", info # None))
              /\ rs_pc' = AfterFallback(info)
    /\ RsFrame

\* time.sleep(1); citations = SemanticScholarAPI.get_citations(arxiv_id=arxiv_id)
RsBackfill ==
    /\ rs_pc = "backfill"
    /\ \E cit \in CitResponses :
          /\ paper_info' = IF get_citations(cit) # None
                           THEN Some([paper_info[1] EXCEPT
                                          !.citations = get_citations(cit)])
                           ELSE paper_info
          /\ rs_calls' = Append(rs_calls,
                                Call("ss_citations", "-", get_citations(cit) # None))
          /\ rs_pc' = "done"
    /\ RsFrame

NextResolve ==
    \/ RsPrimary
    \/ RsFallback
    \/ RsFallbackSS
    \/ RsBackfill

SpecResolve == InitResolve /\ [][NextResolve]_vars

CallsOf(q) == {i \in 1..Len(rs_calls) : rs_calls[i].q = q}

RecordCalls == CallsOf("ss_full") \cup CallsOf("arxiv")

\* the arXiv feed is asked only after a first, citation-graph, query that
\* gave no record
FallbackOnlyAfterPrimaryFailed ==
    \A i \in CallsOf("arxiv") :
        /\ i = 2
        /\ rs_calls[1].q = "ss_full"
        /\ ~rs_calls[1].ok

\* a record that a query produced is returned, whatever the back-fill gave
BackfillNeverLosesRecord ==
    (rs_pc = "done" /\ \E i \in RecordCalls : rs_calls[i].ok) => paper_info # None

\* C18 as stated: fixed order, the citation-graph service asked for the
\* record exactly once per resolution, "not found" exactly when the first
\* query and the arXiv feed both gave no record.
C18_PrimaryOnce ==
    /\ FallbackOnlyAfterPrimaryFailed
    /\ BackfillNeverLosesRecord
    /\ rs_pc = "done" =>
          /\ Cardinality(CallsOf("ss_full")) = 1
          /\ paper_info = None <=>
                /\ ~rs_calls[1].ok
                /\ \E i \in CallsOf("arxiv") : ~rs_calls[i].ok

\* C18 amended: fixed order; the citation-graph service is asked for the
\* record once, and a second time exactly when the arXiv feed answered 403;
\* "not found" exactly when no query for the record gave one; a failed
\* back-fill never turns a record into "not found".
C18_PrimaryOnceOrTwiceOn403 ==
    /\ FallbackOnlyAfterPrimaryFailed
    /\ BackfillNeverLosesRecord
    /\ rs_pc = "done" =>
          /\ rs_calls[1].q = "ss_full"
          /\ Cardinality(CallsOf("ss_full")) =
                IF \E i \in CallsOf("arxiv") : rs_calls[i].status = "403"
                THEN 2 ELSE 1
          /\ \A i \in CallsOf("ss_full") : i = 1 \/ rs_calls[i - 1].status = "403"
          /\ paper_info = None <=> \A i \in RecordCalls : ~rs_calls[i].ok

\* C18 witness: the first query gave no record, the arXiv feed answered 403,
\* the second query to the citation-graph service gave the record
C18_Witness ==
    /\ rs_pc = "done"
    /\ Len(rs_calls) >= 3
    /\ rs_calls[2].status = "403"
    /\ rs_calls[3].q = "ss_full"
    /\ rs_calls[3].ok
    /\ paper_info # None

----------------------------------------------------------------------------
(* main() with --once: every note of the directory is scanned and          *)
(* rewritten, no observer, no handler.                                     *)

InitOnce ==
    /\ files \in [Paths -> Notes]
    /\ processed_urls = EmptyMap
    /\ file_hashes = EmptyMap
    /\ disk = NoStateFile
    /\ now = StartTime
    /\ pending_files = {}
    /\ last_event_time = EmptyMap
    /\ pc = "pp"
    /\ ret = "idle"
    /\ queue \in ListsOf(Paths)
    /\ urls = <<>>
    /\ idx = 0
    /\ paper_info = None
    /\ results = <<>>
    /\ ev = Ev("start", NoUrl, TRUE)
    /\ everPersisted = {}
    /\ failed = {}
    /\ crashes = 0
    /\ state_keys = StateKeys
    /\ deleted = {}
    /\ dirty = {}
    /\ resolveTimes = <<>>
    /\ rs_pc = "idle"
    /\ rs_calls = <<>>
    /\ inflight = {}
    /\ rewrites = 0
    /\ RetryIdle

\* if results: processor.update_file_with_formatted_refs(filepath, results),
\* and the for loop over os.listdir goes on
OnceRewrite ==
    /\ pc = "scan"
    /\ idx > Len(urls)
    /\ results # <<>>
    /\ files' = [files EXCEPT ![filepath] =
                     update_file_with_formatted_refs(files[filepath], results)]
    /\ queue' = Tail(queue)
    /\ pc' = IF Tail(queue) = <<>> THEN "exit" ELSE "pp"
    /\ ev' = Ev("rewrite", NoUrl, TRUE)
    /\ UNCHANGED <<processed_urls, file_hashes, disk, now, pending_files,
                   last_event_time, ret, urls, idx, paper_info, results,
                   everPersisted, failed, crashes>>
    /\ UNCHANGED retryVars
    /\ UNCHANGED notifVars
    /\ UNCHANGED auxVars
    /\ UNCHANGED histVars

\* process_file returned no results: the for loop goes on
OnceNoNewLinks ==
    /\ pc = "scan"
    /\ idx > Len(urls)
    /\ results = <<>>
    /\ queue' = Tail(queue)
    /\ pc' = IF Tail(queue) = <<>> THEN "exit" ELSE "pp"
    /\ ev' = Ev("nothing", NoUrl, TRUE)
    /\ UNCHANGED <<files, processed_urls, file_hashes, disk, now, pending_files,
                   last_event_time, ret, urls, idx, paper_info, results,
                   everPersisted, failed, crashes>>
    /\ UNCHANGED retryVars
    /\ UNCHANGED notifVars
    /\ UNCHANGED auxVars
    /\ UNCHANGED histVars

NextOnce ==
    \/ ProcessFileBegin
    \/ SkipProcessed
    \/ ResolveArxiv
    \/ Download
    \/ MarkArxiv
    \/ SaveDone
    \/ LinkPause
    \/ MarkDoi
    \/ IgnoreUnknown
    \/ OnceRewrite
    \/ OnceNoNewLinks

SpecOnce == InitOnce /\ [][NextOnce]_vars

HasCitation(text) == \E i \in 1..Len(text) : text[i].kind = "cite"

\* C19: when the scan of the directory is over, every note that was
\* rewritten (it holds a citation) has a recorded hash, the hash of its text
\* as the rewrite left it.
C19_HashAfterRewrite ==
    pc = "exit" =>
        \A p \in DOMAIN files :
            HasCitation(files[p]) =>
                /\ p \in DOMAIN file_hashes
                /\ file_hashes[p] = get_file_hash(files[p])

----------------------------------------------------------------------------
(* Claims on the watch loop at rest *)

\* line i of the note at p is a processed arXiv url standing alone
ProcessedUrlLine(p, i) ==
    /\ UrlAt(p, i)
    /\ IsArxivUrl(files[p][i].refs[1])
    /\ is_url_processed(processed_urls, files[p][i].refs[1])

\* C21: whenever no path is pending and no processing run is in progress,
\* every processed arXiv url that stands alone on a line of an existing note
\* has its blank line and its citation line directly below it.
C21_QuiescentCited ==
    (pc = "idle" /\ pending_files = {}) =>
        \A p \in DOMAIN files \ deleted : \A i \in 1..Len(files[p]) :
            ProcessedUrlLine(p, i) =>
                /\ i + 2 <= Len(files[p])
                /\ files[p][i + 1] = BlankLine
                /\ files[p][i + 2].kind = "cite"

----------------------------------------------------------------------------
(* The watch loop after the last external edit of the note.  The handler   *)
(* has accepted the notification of that edit; the clock is read from that *)
(* moment on.  From then on the only notifications are those the program's *)
(* own rewrites of the note cause, delivered by the observer thread at any *)
(* later moment.                                                           *)

EditTime == 0

InitQuiesce ==
    /\ files \in [Paths -> Notes]
    /\ processed_urls = EmptyMap
    /\ file_hashes = EmptyMap
    /\ disk = NoStateFile
    /\ now = EditTime
    /\ pending_files = Paths
    /\ last_event_time = [p \in Paths |-> EditTime]
    /\ pc = "idle"
    /\ ret = "idle"
    /\ queue = <<>>
    /\ urls = <<>>
    /\ idx = 0
    /\ paper_info = None
    /\ results = <<>>
    /\ ev = Ev("start", NoUrl, TRUE)
    /\ everPersisted = {}
    /\ failed = {}
    /\ crashes = 0
    /\ state_keys = StateKeys
    /\ deleted = {}
    /\ dirty = Paths
    /\ resolveTimes = <<>>
    /\ rs_pc = "idle"
    /\ rs_calls = <<>>
    /\ inflight = {}
    /\ rewrites = 0
    /\ RetryIdle

\* update_file_with_formatted_refs(filepath, results) in the watched
\* directory: the write makes the observer see a modification of the note
RewriteNotify ==
    /\ pc = "scan"
    /\ idx > Len(urls)
    /\ results # <<>>
    /\ files' = [files EXCEPT ![filepath] =
                     update_file_with_formatted_refs(files[filepath], results)]
    /\ inflight' = inflight \cup {filepath}
    /\ rewrites' = rewrites + 1
    /\ pc' = "hash"
    /\ ev' = Ev("rewrite", NoUrl, TRUE)
    /\ UNCHANGED <<processed_urls, file_hashes, disk, now, pending_files,
                   last_event_time, ret, queue, urls, idx, paper_info, results,
                   everPersisted, failed, crashes>>
    /\ UNCHANGED retryVars
    /\ UNCHANGED auxVars
    /\ UNCHANGED histVars

\* the observer thread calls on_modified for the note that was written
Deliver ==
    \E p \in inflight :
        /\ on_modified([src_path |-> p, is_directory |-> FALSE])
        /\ inflight' = inflight \ {p}

NextQuiesce ==
    \/ Deliver
    \/ LoopIter
    \/ ProcessFileBegin
    \/ SkipProcessed
    \/ ResolveArxiv
    \/ Download
    \/ MarkArxiv
    \/ SaveDone
    \/ LinkPause
    \/ MarkDoi
    \/ IgnoreUnknown
    \/ RewriteNotify
    \/ NoNewLinks
    \/ UpdateFileHash
    \/ Discard

\* the main thread and the observer thread both keep running
SpecQuiesce == InitQuiesce /\ [][NextQuiesce]_vars /\ WF_vars(NextQuiesce)

Quiescent == pc = "idle" /\ pending_files = {} /\ inflight = {}

\* the main thread is at a sleep that the modelled clock has no room for
ClockOut ==
    \/ pc = "sleep" /\ now + LinkSleep > MaxTime
    \/ pc = "idle" /\ pending_files # {} /\ now + LoopSleep > MaxTime

CountKind(text, k) == Cardinality({i \in 1..Len(text) : text[i].kind = k})

\* C22: the watch loop quiesces although each rewrite notifies the loop of
\* the note it wrote.  Every rewrite follows the marking of a link that was
\* not processed before, so rewrites are at most as many as processed arXiv
\* links; a note never holds more citation blocks than url lines, and no url
\* line has two blocks below it; once nothing is pending, in flight or
\* running, no note, state or pending set changes any more; and every run of
\* the loop gets there, unless the modelled clock ends at a sleep first.
C22_LoopQuiesces ==
    /\ [](rewrites <= Cardinality({u \in DOMAIN processed_urls : IsArxivUrl(u)}))
    /\ [](\A p \in DOMAIN files :
            /\ CountKind(files[p], "cite") <= CountKind(files[p], "url")
            /\ \A i \in 1..(Len(files[p]) - 4) :
                  ~ /\ files[p][i].kind = "url"
                    /\ files[p][i + 2].kind = "cite"
                    /\ files[p][i + 4].kind = "cite")
    /\ [][Quiescent =>
            /\ Quiescent'
            /\ UNCHANGED <<files, processed_urls, file_hashes, disk,
                           last_event_time, rewrites>>]_vars
    /\ <>[](Quiescent \/ ClockOut)

\* C22 witness: the note was rewritten, the notification of that rewrite was
\* accepted, the note was read again after it, and the loop is at rest
C22_Witness ==
    /\ Quiescent
    /\ rewrites >= 1
    /\ \E p \in Paths : last_event_time[p] > EditTime
    /\ dirty = {}
    /\ now < MaxTime

====
